---------------------------- MODULE Spec2Model ----------------------------
(***************************************************************************)
(* A model of src/MyPlant/app.py: the response parser                      *)
(* (process_gemini_response), the image normalizer (prepare_image) and the *)
(* orchestration of one script run (main).                                 *)
(*                                                                         *)
(* Text is modelled character by character: a Python str is a sequence of  *)
(* one-character strings.  The character U+2022 (the bullet) is written    *)
(* "U+2022" because the module has to stay in ASCII.                       *)
(***************************************************************************)
EXTENDS Integers, Sequences, FiniteSets, TLC

VARIABLES
    \* process_gemini_response
    response_text,      \* the argument: a str
    lines,              \* response_text.split('\n'), app.py:200
    idx,                \* number of lines consumed by the loop
    plant_info,         \* the dict built at app.py:191
    current_section,    \* app.py:199
    p_pc,               \* "loop" | "returned" | "raised"
    \* prepare_image
    image_in,           \* the argument: [size |-> <<w, h>>, mode |-> ...]
    image,              \* the local name image, rebound at app.py:132 and 135
    payload,            \* the return value: <<dict>>, or <<>> for None
    i_pc,               \* position inside prepare_image
    \* main
    m_pc,               \* position inside main
    model,              \* app.py:291: TRUE for a model object, FALSE for None
    m_image,            \* app.py:300: the image opened from the upload
    image_data,         \* app.py:330
    response,           \* app.py:345
    shown,              \* the plant_info handed to display_plant_info
    trace,              \* the calls main has made, in order
    progress,           \* the values passed to update_progress, in order
    errors              \* number of st.error messages shown

parserVars == <<response_text, lines, idx, plant_info, current_section, p_pc>>
imageVars  == <<image_in, image, payload, i_pc>>
mainVars   == <<m_pc, model, m_image, image_data, response, shown, trace, progress, errors>>
vars       == <<parserVars, imageVars, mainVars>>

-----------------------------------------------------------------------------
(* Python str operations, on sequences of characters.                      *)

Bullet == "U+2022"
NL     == "\n"
Whitespace == {" ", "\t", NL}

UpperCase == <<"A","B","C","D","E","F","G","H","I","J","K","L","M",
               "N","O","P","Q","R","S","T","U","V","W","X","Y","Z">>
LowerCase == <<"a","b","c","d","e","f","g","h","i","j","k","l","m",
               "n","o","p","q","r","s","t","u","v","w","x","y","z">>

RECURSIVE IndexFrom(_, _, _)
IndexFrom(s, c, k) ==
    IF k > Len(s) THEN 0
    ELSE IF s[k] = c THEN k
    ELSE IndexFrom(s, c, k + 1)

Range(s) == {s[k] : k \in 1..Len(s)}

LowerMap == [c \in Range(UpperCase) |-> LowerCase[IndexFrom(UpperCase, c, 1)]]

\* str.lower(), one character
LowerChar(c) == IF c \in DOMAIN LowerMap THEN LowerMap[c] ELSE c

\* str.lower()
Lower(s) == [i \in 1..Len(s) |-> LowerChar(s[i])]

\* str.lstrip(chars)
RECURSIVE LStripSet(_, _)
LStripSet(s, chars) ==
    IF s # <<>> /\ Head(s) \in chars THEN LStripSet(Tail(s), chars) ELSE s

\* str.rstrip(chars)
RECURSIVE RStripSet(_, _)
RStripSet(s, chars) ==
    IF s # <<>> /\ s[Len(s)] \in chars
    THEN RStripSet(SubSeq(s, 1, Len(s) - 1), chars)
    ELSE s

\* str.strip()
Strip(s) == RStripSet(LStripSet(s, Whitespace), Whitespace)

\* str.startswith(prefix)
StartsWith(s, prefix) ==
    /\ Len(prefix) <= Len(s)
    /\ SubSeq(s, 1, Len(prefix)) = prefix

\* prefix in s
Contains(s, sub) ==
    \E k \in 0..(Len(s) - Len(sub)) : SubSeq(s, k + 1, k + Len(sub)) = sub

\* index of the first occurrence of character c in s, 0 when there is none
FirstIndex(s, c) == IndexFrom(s, c, 1)

\* s.split(c, 1): one or two pieces
SplitOnce(s, c) ==
    LET k == FirstIndex(s, c)
    IN  IF k = 0 THEN <<s>>
        ELSE <<SubSeq(s, 1, k - 1), SubSeq(s, k + 1, Len(s))>>

\* s.split(c): every piece
RECURSIVE SplitChar(_, _)
SplitChar(s, c) ==
    LET k == FirstIndex(s, c)
    IN  IF k = 0 THEN <<s>>
        ELSE <<SubSeq(s, 1, k - 1)>> \o SplitChar(SubSeq(s, k + 1, Len(s)), c)

\* s.split(): the whitespace-delimited words of s
RECURSIVE SplitWords(_)
SplitWords(s) ==
    LET t == LStripSet(s, Whitespace)
    IN  IF t = <<>> THEN <<>>
        ELSE LET n == Len(t) - Len(LStripSet(t, {c \in Range(t) : c \notin Whitespace}))
             IN  <<SubSeq(t, 1, n)>> \o SplitWords(SubSeq(t, n + 1, Len(t)))

-----------------------------------------------------------------------------
(* process_gemini_response, app.py:186-216                                 *)

\* the literals of app.py:191-214, as character sequences
sUnknown      == <<"U","n","k","n","o","w","n">>
sNotAvailable == <<"N","o","t"," ","a","v","a","i","l","a","b","l","e">>
sSpring       == <<"S","p","r","i","n","g">>
sSummer       == <<"S","u","m","m","e","r">>
sMonsoon      == <<"M","o","n","s","o","o","n">>
sWinter       == <<"W","i","n","t","e","r">>
sCare         == <<" ","C","a","r","e",":">>
sCommonName   == <<"c","o","m","m","o","n"," ","n","a","m","e",":">>
sHindiName    == <<"h","i","n","d","i"," ","n","a","m","e",":">>
sHindi        == <<"h","i","n","d","i",":">>
sInHindi      == <<"i","n"," ","h","i","n","d","i",":">>

\* the keys of plant_info['care_instructions'], app.py:194-196
Seasons == {sSpring, sSummer, sMonsoon, sWinter}

\* current_section = None, app.py:199 (falsy, like the empty str)
None == <<>>

\* app.py:191-197
InitialPlantInfo ==
    [common_name |-> sUnknown,
     hindi_name |-> sNotAvailable,
     care_instructions |-> [s \in Seasons |-> <<>>]]

\* response_text.split('\n'), app.py:200
Lines(text) == SplitChar(text, NL)

\* a variant that compares without lowering the line
IsCommonNameLine_CaseSensitive(line) == StartsWith(line, <<"C","o","m","m","o","n"," ","N","a","m","e",":">>)

\* line.lower().startswith('common name:'), app.py:205
IsCommonNameLine(line) == StartsWith(Lower(line), sCommonName)

\* a variant that also matches the phrase written without its colon
HindiPhrases_NoColon == {<<"h","i","n","d","i"," ","n","a","m","e">>, sHindi, sInHindi}

\* any(phrase in line.lower() for phrase in [...]), app.py:207
HindiPhrases == {sHindiName, sHindi, sInHindi}

IsHindiLine(line) == \E phrase \in HindiPhrases : Contains(Lower(line), phrase)

\* the list of app.py:209
AbsentSentinels == {<<"u","n","k","n","o","w","n">>, <<"n","o","t"," ","a","v","a","i","l","a","b","l","e">>, <<"n","/","a">>, <<>>}

\* a variant that compares without lowering the value
IsAbsent_CaseSensitive(value) == value \in AbsentSentinels

\* hindi_name.lower() not in [...], app.py:209
IsAbsent(value) == Lower(value) \in AbsentSentinels

\* a variant that matches the header whatever its case
IsSeasonHeader_IgnoreCase(line, info) ==
    \E season \in DOMAIN info.care_instructions :
        StartsWith(Lower(line), Lower(season \o sCare))

\* any(line.startswith(f"{season} Care:") for season in ...), app.py:211
IsSeasonHeader(line, info) ==
    \E season \in DOMAIN info.care_instructions : StartsWith(line, season \o sCare)

\* line.startswith(bullet), app.py:213
IsBullet(line) == StartsWith(line, <<Bullet>>)

\* line.lstrip(bullet + ' ').strip(), app.py:214
TipText(line) == Strip(LStripSet(line, {Bullet, " "}))

\* One iteration of the loop body, app.py:201-214, on the raw line: the new
\* plant_info and current_section, and whether the iteration raised
\* (IndexError from [1] or [0], KeyError from [current_section]).
ProcessLine(info, section, raw) ==
    LET line   == Strip(raw)
        same   == [info |-> info, section |-> section, raised |-> FALSE]
        failed == [info |-> info, section |-> section, raised |-> TRUE]
        pieces == SplitOnce(line, ":")
    IN  IF line = <<>> THEN same
        ELSE IF IsCommonNameLine(line) THEN
            IF Len(pieces) < 2 THEN failed
            ELSE [same EXCEPT !.info.common_name = Strip(pieces[2])]
        ELSE IF IsHindiLine(line) THEN
            IF Len(pieces) < 2 THEN failed
            ELSE IF ~IsAbsent(Strip(pieces[2]))
                 THEN [same EXCEPT !.info.hindi_name = Strip(pieces[2])]
                 ELSE same
        ELSE IF IsSeasonHeader(line, info) THEN
            LET words == SplitWords(Strip(SplitChar(line, ":")[1]))
            IN  IF words = <<>> THEN failed
                ELSE [same EXCEPT !.section = words[1]]
        ELSE IF section # None /\ IsBullet(line) THEN
            IF section \notin DOMAIN info.care_instructions THEN failed
            ELSE [same EXCEPT !.info.care_instructions[section] =
                                  Append(@, TipText(line))]
        ELSE same

\* the whole function on a text: app.py:186-216
RECURSIVE ParseFrom(_, _, _)
ParseFrom(rest, info, section) ==
    IF rest = <<>> THEN [info |-> info, raised |-> FALSE]
    ELSE LET r == ProcessLine(info, section, Head(rest))
         IN  IF r.raised THEN [info |-> info, raised |-> TRUE]
             ELSE ParseFrom(Tail(rest), r.info, r.section)

process_gemini_response(text) == ParseFrom(Lines(text), InitialPlantInfo, None)

-----------------------------------------------------------------------------
(* Python float arithmetic (IEEE 754 binary64, round to nearest, ties to   *)
(* even) for the two operations of app.py:130-131.  A float is            *)
(* [bits, exp]: the integer written by bits (most significant first)      *)
(* times 2^-exp.  Bits are kept in sequences because the significand does  *)
(* not fit an integer of the model checker.                                *)

\* significand width of a Python float
DoubleBits == 53

Max(a, b) == IF a >= b THEN a ELSE b

Front(q) == SubSeq(q, 1, Len(q) - 1)
Last(q)  == q[Len(q)]

\* the least s with num * 2^s >= den
RECURSIVE Exponent(_, _)
Exponent(num, den) == IF num >= den THEN 0 ELSE 1 + Exponent(2 * num, den)

RECURSIVE Pow2(_)
Pow2(n) == IF n = 0 THEN 1 ELSE 2 * Pow2(n - 1)

\* the next n bits of rem / den, by long division
RECURSIVE DivBits(_, _, _)
DivBits(rem, den, n) ==
    IF n = 0 THEN <<>>
    ELSE IF 2 * rem >= den THEN <<1>> \o DivBits(2 * rem - den, den, n - 1)
    ELSE <<0>> \o DivBits(2 * rem, den, n - 1)

\* and the remainder left after them
RECURSIVE DivRem(_, _, _)
DivRem(rem, den, n) ==
    IF n = 0 THEN rem
    ELSE IF 2 * rem >= den THEN DivRem(2 * rem - den, den, n - 1)
    ELSE DivRem(2 * rem, den, n - 1)

\* bits + 1
RECURSIVE Inc(_)
Inc(bits) ==
    IF bits = <<>> THEN <<1>>
    ELSE IF Last(bits) = 0 THEN Front(bits) \o <<1>>
    ELSE Inc(Front(bits)) \o <<0>>

RECURSIVE BitsOf(_)
BitsOf(n) == IF n = 0 THEN <<>> ELSE BitsOf(n \div 2) \o <<n % 2>>

RECURSIVE ToInt(_)
ToInt(bits) == IF bits = <<>> THEN 0 ELSE 2 * ToInt(Front(bits)) + Last(bits)

\* bits * d + carry, exactly
RECURSIVE MulCarry(_, _, _)
MulCarry(bits, d, carry) ==
    IF bits = <<>> THEN BitsOf(carry)
    ELSE IF (Last(bits) * d + carry) % 2 = 1
         THEN MulCarry(Front(bits), d, (Last(bits) * d + carry) \div 2) \o <<1>>
         ELSE MulCarry(Front(bits), d, (Last(bits) * d + carry) \div 2) \o <<0>>

\* an exact value rounded to DoubleBits significant bits, ties to even
RoundToDouble(bits, exp) ==
    IF Len(bits) <= DoubleBits THEN [bits |-> bits, exp |-> exp]
    ELSE LET kept    == SubSeq(bits, 1, DoubleBits)
             dropped == SubSeq(bits, DoubleBits + 1, Len(bits))
             up      == /\ dropped[1] = 1
                        /\ \/ \E k \in 2..Len(dropped) : dropped[k] = 1
                           \/ Last(kept) = 1
         IN  [bits |-> IF up THEN Inc(kept) ELSE kept,
              exp  |-> exp - Len(dropped)]

\* num / den for ints 0 < num: Python's true division, app.py:130
TrueDiv(num, den) ==
    LET s     == Exponent(num, den)
        n     == num * Pow2(s)
        lead  == n \div den
        rem   == n % den
        first == BitsOf(lead)
        k     == DoubleBits - Len(first)
        bits  == first \o DivBits(rem, den, k)
        left  == DivRem(rem, den, k)
        up    == 2 * left > den \/ (2 * left = den /\ Last(bits) = 1)
    IN  [bits |-> IF up THEN Inc(bits) ELSE bits, exp |-> s + k]

\* dim * ratio for an int and a float, app.py:131
MulIntFloat(dim, ratio) == RoundToDouble(MulCarry(ratio.bits, dim, 0), ratio.exp)

\* int(f) for a float f >= 0, app.py:131
IntOf(f) ==
    IF f.exp >= Len(f.bits) THEN 0
    ELSE IF f.exp >= 0 THEN ToInt(SubSeq(f.bits, 1, Len(f.bits) - f.exp))
    ELSE ToInt(f.bits) * Pow2(0 - f.exp)

-----------------------------------------------------------------------------
(* prepare_image, app.py:122-147                                           *)

\* app.py:128
max_size == 300

\* new_size of app.py:130-131
NewSize(size) ==
    LET ratio == TrueDiv(max_size, Max(size[1], size[2]))
    IN  <<IntOf(MulIntFloat(size[1], ratio)), IntOf(MulIntFloat(size[2], ratio))>>

\* app.py:129-132.  Image.resize raises ValueError ("height and width must
\* be > 0") when a requested dimension is below 1.
Resize(img) ==
    IF Max(img.size[1], img.size[2]) > max_size
    THEN IF NewSize(img.size)[1] < 1 \/ NewSize(img.size)[2] < 1
         THEN [image |-> img, raised |-> TRUE]
         ELSE [image |-> [img EXCEPT !.size = NewSize(img.size)], raised |-> FALSE]
    ELSE [image |-> img, raised |-> FALSE]

\* app.py:134-135
ConvertRGB(img) == IF img.mode # "RGB" THEN [img EXCEPT !.mode = "RGB"] ELSE img

\* app.py:137-144: the dict returned; data stands for the base64 text of the
\* JPEG bytes, written as the image those bytes decode to
Encoded(img) == <<[mime_type |-> "image/jpeg", data |-> img]>>

\* app.py:147
NonePayload == <<>>

\* the whole function: app.py:122-147
prepare_image(img) ==
    IF Resize(img).raised THEN NonePayload
    ELSE Encoded(ConvertRGB(Resize(img).image))

\* the widths and heights the inputs are built from
ImageDims == {1, 2, 100, 299, 300, 301, 562, 600, 1000, 4000}

ImageModes == {"RGB", "RGBA", "L"}

Images == [size : ImageDims \X ImageDims, mode : ImageModes]

-----------------------------------------------------------------------------
(* The parser as a state machine: one step per line of the input.          *)

\* longest input, in lines
MaxLines == 3

\* the lines the inputs are built from
LinePool ==
    { <<"C","o","m","m","o","n"," ","N","a","m","e",":"," ","F","i","c","u","s">>,
      <<" ","c","o","m","m","o","n"," ","n","a","m","e",":","R","o","s","e"," ">>,
      <<"H","i","n","d","i"," ","N","a","m","e",":"," ","N","/","A">>,
      <<"H","i","n","d","i"," ","N","a","m","e",":"," ","T","u","l","s","i">>,
      <<"H","i","n","d","i"," ","N","a","m","e"," ","-"," ","N","i","m">>,
      <<"S","u","m","m","e","r"," ","C","a","r","e",":">>,
      <<"W","i","n","t","e","r"," ","C","a","r","e",":"," ","t","i","p","s">>,
      <<"s","u","m","m","e","r"," ","c","a","r","e",":">>,
      <<"A","u","t","u","m","n"," ","C","a","r","e",":">>,
      <<Bullet," "," ","a"," ">>,
      <<Bullet," ","i","n"," ","H","i","n","d","i",":"," ","c">>,
      <<" "," ">> }

\* '\n'.join(ls)
RECURSIVE JoinLines(_)
JoinLines(ls) ==
    IF ls = <<>> THEN <<>>
    ELSE IF Len(ls) = 1 THEN ls[1]
    ELSE ls[1] \o <<NL>> \o JoinLines(Tail(ls))

Texts ==
    UNION { { JoinLines(ls) : ls \in [1..n -> LinePool] } : n \in 0..MaxLines }

\* the other components, not running
ImageIdle ==
    /\ image_in = [size |-> <<1, 1>>, mode |-> "RGB"]
    /\ image = image_in /\ payload = <<>> /\ i_pc = "idle"
NoResponse == [kind |-> "none", text |-> <<>>]

MainIdle ==
    /\ m_pc = "idle" /\ model = FALSE
    /\ m_image = [size |-> <<1, 1>>, mode |-> "RGB"]
    /\ image_data = <<>> /\ response = NoResponse /\ shown = <<>>
    /\ trace = <<>> /\ progress = <<>> /\ errors = 0
ParserIdle ==
    /\ response_text = <<>> /\ lines = <<>> /\ idx = 0
    /\ plant_info = InitialPlantInfo
    /\ current_section = None /\ p_pc = "idle"

\* app.py:186-199: the call, up to the loop
InitParser ==
    /\ response_text \in Texts
    /\ lines = Lines(response_text)
    /\ idx = 0
    /\ plant_info = InitialPlantInfo
    /\ current_section = None
    /\ p_pc = "loop"
    /\ ImageIdle /\ MainIdle

\* app.py:200-214: one iteration
ParserStep ==
    /\ p_pc = "loop"
    /\ idx < Len(lines)
    /\ LET r == ProcessLine(plant_info, current_section, lines[idx + 1])
       IN  /\ plant_info' = r.info
           /\ current_section' = r.section
           /\ p_pc' = IF r.raised THEN "raised" ELSE "loop"
    /\ idx' = idx + 1
    /\ UNCHANGED <<response_text, lines, imageVars, mainVars>>

\* app.py:216
ParserReturn ==
    /\ p_pc = "loop"
    /\ idx = Len(lines)
    /\ p_pc' = "returned"
    /\ UNCHANGED <<response_text, lines, idx, plant_info, current_section, imageVars, mainVars>>

NextParser == ParserStep \/ ParserReturn

SpecParser == InitParser /\ [][NextParser]_vars

-----------------------------------------------------------------------------
(* prepare_image as a state machine.                                       *)

InitImage ==
    /\ image_in \in Images
    /\ image = image_in
    /\ payload = NonePayload
    /\ i_pc = "resize"
    /\ ParserIdle /\ MainIdle

\* app.py:128-132
ImgResize ==
    /\ i_pc = "resize"
    /\ image' = Resize(image).image
    /\ i_pc' = IF Resize(image).raised THEN "except" ELSE "convert"
    /\ UNCHANGED <<image_in, payload, parserVars, mainVars>>

\* app.py:134-135
ImgConvert ==
    /\ i_pc = "convert"
    /\ image' = ConvertRGB(image)
    /\ i_pc' = "save"
    /\ UNCHANGED <<image_in, payload, parserVars, mainVars>>

\* app.py:137-144
ImgSave ==
    /\ i_pc = "save"
    /\ payload' = Encoded(image)
    /\ i_pc' = "returned"
    /\ UNCHANGED <<image_in, image, parserVars, mainVars>>

\* app.py:145-147
ImgExcept ==
    /\ i_pc = "except"
    /\ payload' = NonePayload
    /\ i_pc' = "returned"
    /\ UNCHANGED <<image_in, image, parserVars, mainVars>>

NextImage == ImgResize \/ ImgConvert \/ ImgSave \/ ImgExcept

SpecImage == InitImage /\ [][NextImage]_vars

-----------------------------------------------------------------------------
(* main, app.py:276-378: one run of the script.  st.stop() ends the run by *)
(* raising a script-control exception that derives from BaseException, so  *)
(* the except Exception of app.py:374 does not catch it.                   *)

\* what generate_content_async may give back: no response object, a response
\* whose .text raises (no candidate text), or a response with a text
Responses ==
    {NoResponse, [kind |-> "no_text", text |-> <<>>]}
        \cup {[kind |-> "text", text |-> t] : t \in {<<>>} \cup LinePool}

\* the uploads that Image.open accepts
Uploads == {img \in Images : img.size[1] \in {1, 100, 600} /\ img.size[2] \in {1, 100, 1000}}

\* a variant that tests the response object only
ResponseHasText_ObjectOnly(r) == r.kind = "text"

\* response and response.text, app.py:355
ResponseHasText(r) == r.kind = "text" /\ r.text # <<>>

InitMain ==
    /\ m_pc = "initialize_gemini"
    /\ model = FALSE
    /\ m_image = [size |-> <<1, 1>>, mode |-> "RGB"]
    /\ image_data = <<>> /\ response = NoResponse /\ shown = <<>>
    /\ trace = <<>> /\ progress = <<>> /\ errors = 0
    /\ ParserIdle /\ ImageIdle

\* app.py:291-294 with initialize_gemini, app.py:106-120
MainInitializeGemini ==
    /\ m_pc = "initialize_gemini"
    /\ \E api_key \in BOOLEAN, configure_raises \in BOOLEAN :
        IF ~api_key
        THEN \* app.py:112-114
             /\ errors' = errors + 1 /\ m_pc' = "stopped" /\ model' = FALSE
        ELSE IF configure_raises
        THEN \* app.py:118-120, then 292-294
             /\ errors' = errors + 2 /\ m_pc' = "stopped" /\ model' = FALSE
        ELSE /\ errors' = errors /\ m_pc' = "file_uploader" /\ model' = TRUE
    /\ UNCHANGED <<m_image, image_data, response, shown, trace, progress,
                   parserVars, imageVars>>

\* app.py:297-305: no file, a file Image.open rejects, or an image
MainUpload ==
    /\ m_pc = "file_uploader"
    /\ \/ /\ m_pc' = "done" /\ UNCHANGED m_image
       \/ /\ m_pc' = "unhandled" /\ UNCHANGED m_image
       \/ \E img \in Uploads : m_image' = img /\ m_pc' = "button"
    /\ UNCHANGED <<model, image_data, response, shown, trace, progress, errors,
                   parserVars, imageVars>>

\* app.py:307-319
MainButton ==
    /\ m_pc = "button"
    /\ \E clicked \in BOOLEAN : m_pc' = IF clicked THEN "prepare_image" ELSE "done"
    /\ UNCHANGED <<model, m_image, image_data, response, shown, trace, progress,
                   errors, parserVars, imageVars>>

\* app.py:330-341
MainPrepareImage ==
    /\ m_pc = "prepare_image"
    /\ image_data' = prepare_image(m_image)
    /\ trace' = Append(trace, "prepare_image")
    /\ IF prepare_image(m_image) = NonePayload
       THEN \* st.error in prepare_image, then app.py:332-333
            /\ errors' = errors + 2 /\ m_pc' = "stopped" /\ UNCHANGED progress
       ELSE /\ errors' = errors /\ m_pc' = "generate_content"
            /\ progress' = progress \o <<25, 50>>
    /\ UNCHANGED <<model, m_image, response, shown, parserVars, imageVars>>

\* app.py:344-347 with process_plant_image, app.py:260-274; a raise goes to
\* the handler of app.py:374-375
MainGenerateContent ==
    /\ m_pc = "generate_content"
    /\ trace' = Append(trace, "generate_content")
    /\ \/ /\ errors' = errors + 1 /\ m_pc' = "done"
          /\ UNCHANGED <<response, progress>>
       \/ \E r \in Responses :
            /\ response' = r
            /\ progress' = Append(progress, 75)
            /\ m_pc' = "response"
            /\ UNCHANGED errors
    /\ UNCHANGED <<model, m_image, image_data, shown, parserVars, imageVars>>

\* app.py:355-372, up to update_progress(100); .text raising and a raise of
\* process_gemini_response go to the handler of app.py:374-375
MainResponse ==
    /\ m_pc = "response"
    /\ IF response.kind = "no_text"
       THEN /\ errors' = errors + 1 /\ m_pc' = "done"
            /\ UNCHANGED <<shown, trace, progress>>
       ELSE IF ResponseHasText(response)
       THEN /\ trace' = Append(trace, "process_gemini_response")
            /\ IF process_gemini_response(response.text).raised
               THEN /\ errors' = errors + 1 /\ m_pc' = "done"
                    /\ UNCHANGED <<shown, progress>>
               ELSE \* the dict is never empty: app.py:357 takes its first branch
                    /\ shown' = <<process_gemini_response(response.text).info>>
                    /\ progress' = Append(progress, 100)
                    /\ m_pc' = "display_plant_info"
                    /\ UNCHANGED errors
       ELSE \* app.py:371-372
            /\ errors' = errors + 1 /\ m_pc' = "done"
            /\ UNCHANGED <<shown, trace, progress>>
    /\ UNCHANGED <<model, m_image, image_data, response, parserVars, imageVars>>

\* app.py:359-368
MainDisplay ==
    /\ m_pc = "display_plant_info"
    /\ trace' = Append(trace, "display_plant_info")
    /\ m_pc' = "done"
    /\ UNCHANGED <<model, m_image, image_data, response, shown, progress, errors,
                   parserVars, imageVars>>

NextMain ==
    \/ MainInitializeGemini \/ MainUpload \/ MainButton \/ MainPrepareImage
    \/ MainGenerateContent \/ MainResponse \/ MainDisplay

SpecMain == InitMain /\ [][NextMain]_vars

-----------------------------------------------------------------------------
(* Properties of the parser.  The input is described here independently of *)
(* ProcessLine: by what each line of the text looks like.                  *)

\* the lines of the text, split independently of the loop's own list
InputLines == Lines(response_text)
Trimmed(i) == Strip(InputLines[i])

\* the text after the line's first colon, trimmed
ValueAfterColon(line) ==
    Strip(SubSeq(line, FirstIndex(line, ":") + 1, Len(line)))

LooksCommonName(line) == StartsWith(Lower(line), <<"c","o","m","m","o","n"," ","n","a","m","e",":">>)

LooksHindi(line) ==
    \/ Contains(Lower(line), <<"h","i","n","d","i"," ","n","a","m","e",":">>)
    \/ Contains(Lower(line), <<"h","i","n","d","i",":">>)
    \/ Contains(Lower(line), <<"i","n"," ","h","i","n","d","i",":">>)

FourSeasons == {<<"S","p","r","i","n","g">>, <<"S","u","m","m","e","r">>, <<"M","o","n","s","o","o","n">>, <<"W","i","n","t","e","r">>}

LooksSeasonHeader(line) ==
    \E s \in FourSeasons : StartsWith(line, s \o <<" ","C","a","r","e",":">>)

SeasonOf(line) ==
    CHOOSE s \in FourSeasons : StartsWith(line, s \o <<" ","C","a","r","e",":">>)

LooksBullet(line) == line # <<>> /\ line[1] = Bullet

\* a line the name rules take before the header and bullet rules see it
TakenByNameRule(line) == LooksCommonName(line) \/ LooksHindi(line)

\* line i is a season header the parser recognizes
RecognizedHeader(i) ==
    ~TakenByNameRule(Trimmed(i)) /\ LooksSeasonHeader(Trimmed(i))

\* line i looks like a header (mentions care, has a colon, is no bullet)
HeaderLike(i) ==
    /\ ~TakenByNameRule(Trimmed(i))
    /\ ~LooksBullet(Trimmed(i))
    /\ Contains(Lower(Trimmed(i)), <<"c","a","r","e">>)
    /\ Contains(Trimmed(i), <<":">>)

UnrecognizedHeader(i) == HeaderLike(i) /\ ~RecognizedHeader(i)

\* line i is a bullet line that no name rule takes
PlainBullet(i) == ~TakenByNameRule(Trimmed(i)) /\ LooksBullet(Trimmed(i))

LastIn(S) == CHOOSE i \in S : \A j \in S : j <= i

\* the season of the last recognized header before line k, None without one
SectionAt(k) ==
    LET H == {i \in 1..(k - 1) : RecognizedHeader(i)}
    IN  IF H = {} THEN None ELSE SeasonOf(Trimmed(LastIn(H)))

\* the season of the nearest header-like line before line k when that line
\* is a recognized header, None otherwise
NearestHeaderSection(k) ==
    LET H == {i \in 1..(k - 1) : HeaderLike(i)}
    IN  IF H = {} \/ ~RecognizedHeader(LastIn(H)) THEN None
        ELSE SeasonOf(Trimmed(LastIn(H)))

\* a bullet line without its leading markers and surrounding whitespace
RECURSIVE TipOf(_)
TipOf(line) ==
    IF line # <<>> /\ line[1] \in {Bullet, " "} THEN TipOf(Tail(line))
    ELSE Strip(line)

\* the tips of the bullet lines among the first k lines that follow a
\* recognized header for season s, in input order
RECURSIVE TipsFollowing(_, _)
TipsFollowing(k, s) ==
    IF k = 0 THEN <<>>
    ELSE IF PlainBullet(k) /\ SectionAt(k) = s
         THEN Append(TipsFollowing(k - 1, s), TipOf(Trimmed(k)))
         ELSE TipsFollowing(k - 1, s)

\* the same, counting every line that starts with the marker
RECURSIVE AllBulletTipsFollowing(_, _)
AllBulletTipsFollowing(k, s) ==
    IF k = 0 THEN <<>>
    ELSE IF LooksBullet(Trimmed(k)) /\ SectionAt(k) = s
         THEN Append(AllBulletTipsFollowing(k - 1, s), TipOf(Trimmed(k)))
         ELSE AllBulletTipsFollowing(k - 1, s)

\* the same, with the bullets after an unrecognized header dropped
RECURSIVE TipsAfterNearestHeader(_, _)
TipsAfterNearestHeader(k, s) ==
    IF k = 0 THEN <<>>
    ELSE IF PlainBullet(k) /\ NearestHeaderSection(k) = s
         THEN Append(TipsAfterNearestHeader(k - 1, s), TipOf(Trimmed(k)))
         ELSE TipsAfterNearestHeader(k - 1, s)

NoLineMatches ==
    \A i \in 1..Len(InputLines) :
        ~(TakenByNameRule(Trimmed(i)) \/ LooksSeasonHeader(Trimmed(i))
            \/ LooksBullet(Trimmed(i)))

\* C1: process_gemini_response never fails: the pass over the lines never
\* raises, always has a next line or the return ahead, and returns a record with
\* common_name, hindi_name and care_instructions; when no line matches any
\* rule the returned record is the all-default one.
C1_NeverFails ==
    /\ p_pc \in {"loop", "returned"}
    /\ p_pc = "loop" => idx <= Len(InputLines)
    /\ p_pc = "returned" =>
        /\ idx = Len(InputLines)
        /\ DOMAIN plant_info = {"common_name", "hindi_name", "care_instructions"}
        /\ NoLineMatches =>
            /\ plant_info.common_name = <<"U","n","k","n","o","w","n">>
            /\ plant_info.hindi_name = <<"N","o","t"," ","a","v","a","i","l","a","b","l","e">>
            /\ \A s \in FourSeasons : plant_info.care_instructions[s] = <<>>

\* a returned pass over a text with a non-blank line that matches no rule
C1_Witness ==
    /\ p_pc = "returned"
    /\ NoLineMatches
    /\ \E i \in 1..Len(InputLines) : Trimmed(i) # <<>>

\* C2: in every state of the pass care_instructions has exactly the four
\* season keys, and current_section is unset or one of them.
C2_FourKeys ==
    /\ DOMAIN plant_info.care_instructions = FourSeasons
    /\ current_section \in FourSeasons \cup {None}

\* a returned pass that used two sections and appended a tip
C2_Witness ==
    /\ p_pc = "returned"
    /\ current_section = <<"W","i","n","t","e","r">>
    /\ plant_info.care_instructions[<<"S","u","m","m","e","r">>] # <<>>

CommonNameLines == {i \in 1..Len(InputLines) : LooksCommonName(Trimmed(i))}

\* C3 as stated: every line "Common Name: X" of the input gives
\* common_name = X in the returned record.
C3_AnyCommonNameLine ==
    p_pc = "returned" =>
        \A i \in 1..Len(InputLines) :
            StartsWith(Trimmed(i), <<"C","o","m","m","o","n"," ","N","a","m","e",":">>) =>
                plant_info.common_name = ValueAfterColon(Trimmed(i))

\* C3 amended: the returned common_name is the value of the last line whose
\* lowercase form starts with "common name:", and "Unknown" without one.
C3_LastCommonNameLine ==
    p_pc = "returned" =>
        plant_info.common_name =
            IF CommonNameLines = {} THEN <<"U","n","k","n","o","w","n">>
            ELSE ValueAfterColon(Trimmed(LastIn(CommonNameLines)))

\* a returned pass over two common-name lines with different values
C3_Witness ==
    /\ p_pc = "returned"
    /\ \E i, j \in CommonNameLines :
        /\ i < j
        /\ ValueAfterColon(Trimmed(i)) # ValueAfterColon(Trimmed(j))
        /\ plant_info.common_name = ValueAfterColon(Trimmed(j))

\* a line with one of the Hindi phrases
HindiNameLines == {i \in 1..Len(InputLines) : LooksHindi(Trimmed(i))}

IsSentinel(v) ==
    Lower(v) \in {<<"u","n","k","n","o","w","n">>, <<"n","o","t"," ","a","v","a","i","l","a","b","l","e">>, <<"n","/","a">>, <<>>}

\* C4 as stated: a Hindi-name line with a sentinel value leaves hindi_name at
\* the default, and one with another value V sets hindi_name to V.
C4_AnyHindiLine ==
    p_pc = "returned" =>
        \A i \in HindiNameLines :
            plant_info.hindi_name =
                IF IsSentinel(ValueAfterColon(Trimmed(i))) THEN <<"N","o","t"," ","a","v","a","i","l","a","b","l","e">>
                ELSE ValueAfterColon(Trimmed(i))

\* the Hindi-name lines that reach the Hindi rule with a value that counts
EffectiveHindiLines ==
    {i \in HindiNameLines :
        /\ ~LooksCommonName(Trimmed(i))
        /\ ~IsSentinel(ValueAfterColon(Trimmed(i)))}

\* C4 amended: the returned hindi_name is the value of the last Hindi-name
\* line that is no common-name line and whose value is no sentinel, and
\* "Not available" without such a line.
C4_LastEffectiveHindiLine ==
    p_pc = "returned" =>
        plant_info.hindi_name =
            IF EffectiveHindiLines = {} THEN <<"N","o","t"," ","a","v","a","i","l","a","b","l","e">>
            ELSE ValueAfterColon(Trimmed(LastIn(EffectiveHindiLines)))

\* a returned pass where a sentinel line follows a line with a real value
C4_Witness ==
    /\ p_pc = "returned"
    /\ \E i \in EffectiveHindiLines : \E j \in HindiNameLines :
        /\ i < j
        /\ IsSentinel(ValueAfterColon(Trimmed(j)))
        /\ plant_info.hindi_name = ValueAfterColon(Trimmed(i))

\* C5 as stated: the bullets after an unrecognized header are dropped until
\* the next recognized header, whatever was recognized before.
C5_DroppedAfterUnrecognized ==
    p_pc = "returned" =>
        \A s \in FourSeasons :
            plant_info.care_instructions[s] = TipsAfterNearestHeader(idx, s)

\* What the parser does with such a line: an unrecognized header-like line
\* changes neither the cursor nor the record; a bullet that follows it is
\* dropped when no header was recognized earlier in the input, and is
\* otherwise appended to the list of the most recently recognized season.
UnrecognizedHeaderIgnored ==
    [][ (p_pc = "loop" /\ idx' = idx + 1) =>
          LET k == idx + 1 IN
          /\ UnrecognizedHeader(k) =>
                /\ current_section' = current_section
                /\ plant_info' = plant_info
          /\ (PlainBullet(k) /\ \E i \in 1..(k - 1) : UnrecognizedHeader(i)
                /\ \A j \in (i + 1)..(k - 1) : ~HeaderLike(j)) =>
                IF SectionAt(k) = None
                THEN plant_info' = plant_info
                ELSE plant_info' =
                        [plant_info EXCEPT !.care_instructions[SectionAt(k)] =
                            Append(@, TipOf(Trimmed(k)))]
       ]_vars

\* a bullet after an unrecognized header went to the season recognized before
LeakedBullet ==
    /\ idx >= 3
    /\ RecognizedHeader(idx - 2)
    /\ UnrecognizedHeader(idx - 1)
    /\ PlainBullet(idx)
    /\ plant_info.care_instructions[SectionAt(idx)] = <<TipOf(Trimmed(idx))>>

\* C6 as stated: every bullet line that follows a recognized header is
\* appended to that season's list.
C6_EveryBulletAppended ==
    p_pc = "returned" =>
        \A s \in FourSeasons :
            plant_info.care_instructions[s] = AllBulletTipsFollowing(idx, s)

\* What the parser does: after any number of lines, each season's list
\* holds, in input order, exactly the tips of the bullet lines taken by no
\* name rule that follow a recognized header of that season (the last
\* recognized header before the bullet); a repeated header resets nothing,
\* and a bullet with no recognized header before it is in no list.
ListsAreTipsInOrder ==
    \A s \in FourSeasons :
        plant_info.care_instructions[s] = TipsFollowing(idx, s)

\* a header repeated after its first bullet: the list still holds the bullet
RepeatedHeaderKeepsList ==
    /\ idx >= 3
    /\ RecognizedHeader(idx - 2)
    /\ PlainBullet(idx - 1)
    /\ RecognizedHeader(idx)
    /\ SeasonOf(Trimmed(idx)) = SeasonOf(Trimmed(idx - 2))
    /\ plant_info.care_instructions[SeasonOf(Trimmed(idx))] = <<TipOf(Trimmed(idx - 1))>>

-----------------------------------------------------------------------------
(* Properties of prepare_image.                                            *)

Longer(size)  == IF size[1] >= size[2] THEN size[1] ELSE size[2]
Shorter(size) == IF size[1] >= size[2] THEN size[2] ELSE size[1]

\* C7: the size of the returned image has a longer dimension of at most 300
\* and at most the input's; an input whose longer dimension is at most 300
\* keeps its size; a larger input gets a longer dimension of exactly 300 and
\* the other dimension scaled by 300 / longer, rounded down, never larger
\* than its input value.
C7_SizeAsStated ==
    (i_pc = "returned" /\ payload # <<>>) =>
        LET in  == image_in.size
            out == payload[1].data.size
        IN  /\ Longer(out) <= 300
            /\ Longer(out) <= Longer(in)
            /\ Longer(in) <= 300 => out = in
            /\ Longer(in) > 300 =>
                /\ Longer(out) = 300
                /\ Shorter(out) = (Shorter(in) * 300) \div Longer(in)
                /\ out[1] <= in[1] /\ out[2] <= in[2]

\* C8: prepare_image returns a payload for every image: tagged image/jpeg,
\* three-channel, both dimensions at least 1.
C8_AlwaysPayload ==
    i_pc = "returned" =>
        /\ payload # <<>>
        /\ payload[1].mime_type = "image/jpeg"
        /\ payload[1].data.mode = "RGB"
        /\ payload[1].data.size[1] >= 1
        /\ payload[1].data.size[2] >= 1

-----------------------------------------------------------------------------
(* Properties of main.                                                     *)

InTrace(call) == \E k \in 1..Len(trace) : trace[k] = call

IsPrefix(a, b) == Len(a) <= Len(b) /\ SubSeq(b, 1, Len(a)) = a

\* C9: every failure of an identification attempt is caught in main and
\* shown as an error message: no exception leaves main unhandled, a run that
\* stopped or ended without displaying after the AI call has shown an error,
\* and after a failed image preparation the inference service is not called.
C9_AllFailuresCaught ==
    /\ m_pc # "unhandled"
    /\ m_pc = "stopped" => errors > 0
    /\ (m_pc = "done" /\ InTrace("generate_content")
            /\ ~InTrace("display_plant_info")) => errors > 0
    /\ (InTrace("prepare_image") /\ image_data = NonePayload) =>
            ~InTrace("generate_content")

\* C10: within one "Identify Plant" action the calls are made in the order
\* prepare_image, generate_content, process_gemini_response,
\* display_plant_info, each at most once; the service is called only with a
\* payload, the parser only with a non-empty text, the display only with a
\* parsed record; progress passes 25, 50, 75, 100 in this order and reaches
\* 100 only on the path that displays a result.
C10_StepsInOrder ==
    /\ IsPrefix(trace, <<"prepare_image", "generate_content",
                         "process_gemini_response", "display_plant_info">>)
    /\ InTrace("generate_content") => image_data # NonePayload
    /\ InTrace("process_gemini_response") =>
            response.kind = "text" /\ response.text # <<>>
    /\ InTrace("display_plant_info") =>
            shown # <<>> /\ progress = <<25, 50, 75, 100>>
    /\ IsPrefix(progress, <<25, 50, 75, 100>>)
    /\ (\E k \in 1..Len(progress) : progress[k] = 100) =>
            m_pc = "display_plant_info" \/ InTrace("display_plant_info")

\* a run that displayed a result
C10_Witness ==
    /\ m_pc = "done"
    /\ trace = <<"prepare_image", "generate_content",
                 "process_gemini_response", "display_plant_info">>
    /\ progress = <<25, 50, 75, 100>>
    /\ shown # <<>>

=============================================================================
